---- MODULE Spec2Model ----
(***************************************************************************)
(* The Global Entry Strategy Dashboard as a state machine.                 *)
(*                                                                         *)
(* App (App.tsx) holds showResults, selectedStrategy and the four slider   *)
(* weights; ResultsScreen (mounted while showResults) holds                *)
(* selectedScenario and selectedCountry.  The module-level tables          *)
(* scenarioData, scenarioWeights, scenarios and strategies are JavaScript  *)
(* objects and therefore part of the state.  Every event handler is an     *)
(* operator from a world (a record of all of the above) to a world; an     *)
(* action applies the handler and lets React commit (mount / unmount of    *)
(* ResultsScreen); what is on screen, view, is what App returned at its    *)
(* last render.  A click is rendered before the next event is handled; a   *)
(* slider event (onValueChange, fired while a thumb is dragged) only       *)
(* schedules the render, so a second slider event can reach the handler    *)
(* of the same render: captured holds the weights of that render.          *)
(*                                                                         *)
(* Numbers are kept as scaled integers: weights of scenarioWeights in      *)
(* hundredths (0.25 is 25), topsisScore in thousandths (0.892 is 892),     *)
(* rcScore, digitalInfra and jobMarket in tenths (72.5 is 725),            *)
(* gdpPerCapita and the slider values as they are.                         *)
(***************************************************************************)
EXTENDS Integers, Sequences, FiniteSets, TLC

VARIABLES
  showResults,       \* App: useState(false)
  selectedStrategy,  \* App: useState('balanced')
  weights,           \* App: useState<Weight[]>([...])
  captured,          \* App: the weights of the render whose handlers are attached
  selectedScenario,  \* ResultsScreen: useState('talent-focused')
  selectedCountry,   \* ResultsScreen: useState<string | null>('USA')
  scenarioData,      \* module-level table of result records per scenario
  scenarioWeights,   \* module-level table of weight quadruples per scenario
  scenarios,         \* module-level list of the scenario tabs
  strategies,        \* module-level list of the strategy buttons
  locale,            \* the browser's locale, read by toLocaleString
  twin,              \* the world of a second run of the program
  leftChanged,       \* history: the results screen was once left with other selections
  clicked,           \* history: the tab and the row last clicked on this visit, and
                     \* the slider event handled last since any other event
  rendered           \* render harness: what ResultsScreen returned


vars == << showResults, selectedStrategy, weights, captured, selectedScenario,
           selectedCountry, scenarioData, scenarioWeights, scenarios,
           strategies, locale, twin, leftChanged, clicked, rendered >>

---------------------------------------------------------------------------
(* Bounds of the model *)

\* the slider positions tried are the multiples 0, 25, ... of 25 up to
\* 25 * MaxSliderStops
MaxSliderStops == 1

\* the render harness of ResultsScreen tries the first 0..MaxRows records of
\* each scenario as the table of that scenario
MaxRows == 6

---------------------------------------------------------------------------
(* Program constants *)

SliderMin == 0
SliderMax == 100
SliderStep == 1
FullMark == 100

null == "<null>"            \* JavaScript null
unmounted == "<unmounted>"  \* state of a component that is not mounted

SliderValues ==
  { v \in SliderMin..SliderMax :
      /\ (v - SliderMin) % SliderStep = 0
      /\ v % 25 = 0 /\ v \div 25 <= MaxSliderStops }

Locales == {"en-US", "de-DE"}

---------------------------------------------------------------------------
(* The static tables, as written in the source *)

BalancedResults ==
  << [rank |-> 1, iso |-> "USA", country |-> "United States", topsisScore |-> 892,
      rcScore |-> 725, gdpPerCapita |-> 69287, digitalInfra |-> 883, jobMarket |-> 912,
      description |-> "The United States leads with balanced excellence across all metrics. Strong job market and digital infrastructure make it ideal for AI startups seeking talent and technical capabilities."],
     [rank |-> 2, iso |-> "GBR", country |-> "United Kingdom", topsisScore |-> 845,
      rcScore |-> 682, gdpPerCapita |-> 46125, digitalInfra |-> 857, jobMarket |-> 846,
      description |-> "The UK offers a strong regulatory environment and competitive job market, particularly in London. Good balance between market access and talent availability."],
     [rank |-> 3, iso |-> "CAN", country |-> "Canada", topsisScore |-> 821,
      rcScore |-> 758, gdpPerCapita |-> 52051, digitalInfra |-> 834, jobMarket |-> 795,
      description |-> "Canada provides favorable regulations and a welcoming environment for tech companies. Strong immigration policies support talent acquisition."],
     [rank |-> 4, iso |-> "AUS", country |-> "Australia", topsisScore |-> 798,
      rcScore |-> 713, gdpPerCapita |-> 51812, digitalInfra |-> 821, jobMarket |-> 768,
      description |-> "Australia combines strong digital infrastructure with a stable regulatory framework. Growing tech ecosystem in Sydney and Melbourne."],
     [rank |-> 5, iso |-> "DEU", country |-> "Germany", topsisScore |-> 776,
      rcScore |-> 654, gdpPerCapita |-> 50795, digitalInfra |-> 819, jobMarket |-> 823,
      description |-> "Germany offers access to the EU market with strong engineering talent. Regulations favor data privacy and consumer protection."],
     [rank |-> 6, iso |-> "KOR", country |-> "South Korea", topsisScore |-> 754,
      rcScore |-> 697, gdpPerCapita |-> 35196, digitalInfra |-> 925, jobMarket |-> 742,
      description |-> "South Korea leads in digital infrastructure with world-class connectivity. Strong government support for AI and technology sectors."] >>

TalentFocusedResults ==
  << [rank |-> 1, iso |-> "USA", country |-> "United States", topsisScore |-> 921,
      rcScore |-> 725, gdpPerCapita |-> 69287, digitalInfra |-> 883, jobMarket |-> 912,
      description |-> "The United States dominates in AI talent with deep pools in Silicon Valley, Boston, and Seattle. Top universities and competitive compensation attract global talent."],
     [rank |-> 2, iso |-> "GBR", country |-> "United Kingdom", topsisScore |-> 867,
      rcScore |-> 682, gdpPerCapita |-> 46125, digitalInfra |-> 857, jobMarket |-> 846,
      description |-> "The UK, particularly London, offers strong AI research talent from leading universities like Oxford and Cambridge."],
     [rank |-> 3, iso |-> "DEU", country |-> "Germany", topsisScore |-> 834,
      rcScore |-> 654, gdpPerCapita |-> 50795, digitalInfra |-> 819, jobMarket |-> 823,
      description |-> "Germany provides excellent engineering talent with strong technical education and research institutions."],
     [rank |-> 4, iso |-> "CAN", country |-> "Canada", topsisScore |-> 812,
      rcScore |-> 758, gdpPerCapita |-> 52051, digitalInfra |-> 834, jobMarket |-> 795,
      description |-> "Canada has emerged as an AI research hub with centers in Toronto, Montreal, and Vancouver. Immigration-friendly policies attract talent."],
     [rank |-> 5, iso |-> "AUS", country |-> "Australia", topsisScore |-> 781,
      rcScore |-> 713, gdpPerCapita |-> 51812, digitalInfra |-> 821, jobMarket |-> 768,
      description |-> "Australia offers growing AI talent pools and quality of life that attracts international workers."],
     [rank |-> 6, iso |-> "KOR", country |-> "South Korea", topsisScore |-> 765,
      rcScore |-> 697, gdpPerCapita |-> 35196, digitalInfra |-> 925, jobMarket |-> 742,
      description |-> "South Korea has strong technical talent in AI and robotics, supported by major tech companies."] >>

RegulationFocusedResults ==
  << [rank |-> 1, iso |-> "CAN", country |-> "Canada", topsisScore |-> 887,
      rcScore |-> 758, gdpPerCapita |-> 52051, digitalInfra |-> 834, jobMarket |-> 795,
      description |-> "Canada leads in regulatory clarity with progressive AI governance frameworks and supportive government policies."],
     [rank |-> 2, iso |-> "USA", country |-> "United States", topsisScore |-> 856,
      rcScore |-> 725, gdpPerCapita |-> 69287, digitalInfra |-> 883, jobMarket |-> 912,
      description |-> "The US offers relatively favorable regulations with innovation-friendly policies at federal and state levels."],
     [rank |-> 3, iso |-> "AUS", country |-> "Australia", topsisScore |-> 829,
      rcScore |-> 713, gdpPerCapita |-> 51812, digitalInfra |-> 821, jobMarket |-> 768,
      description |-> "Australia provides clear regulatory frameworks with balanced approach to innovation and consumer protection."],
     [rank |-> 4, iso |-> "KOR", country |-> "South Korea", topsisScore |-> 801,
      rcScore |-> 697, gdpPerCapita |-> 35196, digitalInfra |-> 925, jobMarket |-> 742,
      description |-> "South Korea maintains tech-friendly regulations with strong government support for AI development."],
     [rank |-> 5, iso |-> "GBR", country |-> "United Kingdom", topsisScore |-> 778,
      rcScore |-> 682, gdpPerCapita |-> 46125, digitalInfra |-> 857, jobMarket |-> 846,
      description |-> "The UK offers post-Brexit regulatory flexibility while maintaining high standards for AI governance."],
     [rank |-> 6, iso |-> "DEU", country |-> "Germany", topsisScore |-> 743,
      rcScore |-> 654, gdpPerCapita |-> 50795, digitalInfra |-> 819, jobMarket |-> 823,
      description |-> "Germany follows strict EU regulations with emphasis on data protection and ethical AI deployment."] >>

MarketFocusedResults ==
  << [rank |-> 1, iso |-> "USA", country |-> "United States", topsisScore |-> 905,
      rcScore |-> 725, gdpPerCapita |-> 69287, digitalInfra |-> 883, jobMarket |-> 912,
      description |-> "The United States offers the largest market with highest GDP per capita and consumer spending power."],
     [rank |-> 2, iso |-> "CAN", country |-> "Canada", topsisScore |-> 871,
      rcScore |-> 758, gdpPerCapita |-> 52051, digitalInfra |-> 834, jobMarket |-> 795,
      description |-> "Canada provides strong purchasing power and serves as gateway to North American markets."],
     [rank |-> 3, iso |-> "AUS", country |-> "Australia", topsisScore |-> 847,
      rcScore |-> 713, gdpPerCapita |-> 51812, digitalInfra |-> 821, jobMarket |-> 768,
      description |-> "Australia offers high GDP per capita with strong consumer markets in urban centers."],
     [rank |-> 4, iso |-> "DEU", country |-> "Germany", topsisScore |-> 823,
      rcScore |-> 654, gdpPerCapita |-> 50795, digitalInfra |-> 819, jobMarket |-> 823,
      description |-> "Germany provides access to wealthy European markets as the economic engine of the EU."],
     [rank |-> 5, iso |-> "GBR", country |-> "United Kingdom", topsisScore |-> 798,
      rcScore |-> 682, gdpPerCapita |-> 46125, digitalInfra |-> 857, jobMarket |-> 846,
      description |-> "The UK offers strong domestic market and serves as financial hub with high-value sectors."],
     [rank |-> 6, iso |-> "KOR", country |-> "South Korea", topsisScore |-> 721,
      rcScore |-> 697, gdpPerCapita |-> 35196, digitalInfra |-> 925, jobMarket |-> 742,
      description |-> "South Korea has growing market with tech-savvy consumers but lower GDP per capita."] >>

InfraFocusedResults ==
  << [rank |-> 1, iso |-> "KOR", country |-> "South Korea", topsisScore |-> 934,
      rcScore |-> 697, gdpPerCapita |-> 35196, digitalInfra |-> 925, jobMarket |-> 742,
      description |-> "South Korea leads globally in digital infrastructure with fastest internet speeds and comprehensive 5G coverage."],
     [rank |-> 2, iso |-> "USA", country |-> "United States", topsisScore |-> 891,
      rcScore |-> 725, gdpPerCapita |-> 69287, digitalInfra |-> 883, jobMarket |-> 912,
      description |-> "The US provides world-class cloud infrastructure with major data centers and tech infrastructure."],
     [rank |-> 3, iso |-> "GBR", country |-> "United Kingdom", topsisScore |-> 862,
      rcScore |-> 682, gdpPerCapita |-> 46125, digitalInfra |-> 857, jobMarket |-> 846,
      description |-> "The UK offers strong digital connectivity and well-developed tech infrastructure in major cities."],
     [rank |-> 4, iso |-> "CAN", country |-> "Canada", topsisScore |-> 839,
      rcScore |-> 758, gdpPerCapita |-> 52051, digitalInfra |-> 834, jobMarket |-> 795,
      description |-> "Canada maintains excellent digital infrastructure with reliable connectivity across urban centers."],
     [rank |-> 5, iso |-> "AUS", country |-> "Australia", topsisScore |-> 817,
      rcScore |-> 713, gdpPerCapita |-> 51812, digitalInfra |-> 821, jobMarket |-> 768,
      description |-> "Australia has invested heavily in digital infrastructure despite geographic challenges."],
     [rank |-> 6, iso |-> "DEU", country |-> "Germany", topsisScore |-> 795,
      rcScore |-> 654, gdpPerCapita |-> 50795, digitalInfra |-> 819, jobMarket |-> 823,
      description |-> "Germany offers solid infrastructure though lags behind leaders in certain connectivity metrics."] >>
\* the balanced list with its first two records in the wrong order
scenarioDataInit_Unsorted ==
  [ s \in {"balanced", "talent-focused", "regulation-focused",
           "market-focused", "infra-focused"} |->
      CASE s = "balanced" ->
             << BalancedResults[2], BalancedResults[1], BalancedResults[3],
                BalancedResults[4], BalancedResults[5], BalancedResults[6] >>
        [] s = "talent-focused" -> TalentFocusedResults
        [] s = "regulation-focused" -> RegulationFocusedResults
        [] s = "market-focused" -> MarketFocusedResults
        [] s = "infra-focused" -> InfraFocusedResults ]

\* the infra-focused list without its last record, Germany
scenarioDataInit_MissingRecord ==
  [ s \in {"balanced", "talent-focused", "regulation-focused",
           "market-focused", "infra-focused"} |->
      CASE s = "balanced" -> BalancedResults
        [] s = "talent-focused" -> TalentFocusedResults
        [] s = "regulation-focused" -> RegulationFocusedResults
        [] s = "market-focused" -> MarketFocusedResults
        [] s = "infra-focused" -> SubSeq(InfraFocusedResults, 1, 5) ]

\* the infra-focused list with a newer digital-infrastructure index for
\* South Korea than the other lists have
scenarioDataInit_RevisedIndicator ==
  [ s \in {"balanced", "talent-focused", "regulation-focused",
           "market-focused", "infra-focused"} |->
      CASE s = "balanced" -> BalancedResults
        [] s = "talent-focused" -> TalentFocusedResults
        [] s = "regulation-focused" -> RegulationFocusedResults
        [] s = "market-focused" -> MarketFocusedResults
        [] s = "infra-focused" ->
             [ InfraFocusedResults EXCEPT ![1].digitalInfra = 941 ] ]

scenarioDataInit ==
  [ s \in {"balanced", "talent-focused", "regulation-focused",
           "market-focused", "infra-focused"} |->
      CASE s = "balanced" -> BalancedResults
        [] s = "talent-focused" -> TalentFocusedResults
        [] s = "regulation-focused" -> RegulationFocusedResults
        [] s = "market-focused" -> MarketFocusedResults
        [] s = "infra-focused" -> InfraFocusedResults ]

\* the focused criterion raised to 0.40 without lowering the other three
scenarioWeightsInit_Unnormalised ==
  [ s \in {"balanced", "talent-focused", "regulation-focused",
           "market-focused", "infra-focused"} |->
      CASE s = "balanced" -> [rc |-> 25, gdp |-> 25, infra |-> 25, job |-> 25]
        [] s = "talent-focused" -> [rc |-> 25, gdp |-> 25, infra |-> 25, job |-> 40]
        [] s = "regulation-focused" -> [rc |-> 40, gdp |-> 25, infra |-> 25, job |-> 25]
        [] s = "market-focused" -> [rc |-> 25, gdp |-> 40, infra |-> 25, job |-> 25]
        [] s = "infra-focused" -> [rc |-> 25, gdp |-> 25, infra |-> 40, job |-> 25] ]

\* the quadruples of regulation-focused and infra-focused under each
\* other's key
scenarioWeightsInit_Mislabelled ==
  [ s \in {"balanced", "talent-focused", "regulation-focused",
           "market-focused", "infra-focused"} |->
      CASE s = "balanced" -> [rc |-> 25, gdp |-> 25, infra |-> 25, job |-> 25]
        [] s = "talent-focused" -> [rc |-> 20, gdp |-> 20, infra |-> 20, job |-> 40]
        [] s = "regulation-focused" -> [rc |-> 20, gdp |-> 20, infra |-> 40, job |-> 20]
        [] s = "market-focused" -> [rc |-> 20, gdp |-> 40, infra |-> 20, job |-> 20]
        [] s = "infra-focused" -> [rc |-> 40, gdp |-> 20, infra |-> 20, job |-> 20] ]

scenarioWeightsInit ==
  [ s \in {"balanced", "talent-focused", "regulation-focused",
           "market-focused", "infra-focused"} |->
      CASE s = "balanced" -> [rc |-> 25, gdp |-> 25, infra |-> 25, job |-> 25]
        [] s = "talent-focused" -> [rc |-> 20, gdp |-> 20, infra |-> 20, job |-> 40]
        [] s = "regulation-focused" -> [rc |-> 40, gdp |-> 20, infra |-> 20, job |-> 20]
        [] s = "market-focused" -> [rc |-> 20, gdp |-> 40, infra |-> 20, job |-> 20]
        [] s = "infra-focused" -> [rc |-> 20, gdp |-> 20, infra |-> 40, job |-> 20] ]

\* a sixth tab for which there is neither a strategy nor data
scenariosInit_ExtraTab ==
  << [id |-> "balanced", label |-> "Balanced"],
     [id |-> "talent-focused", label |-> "Talent-Focused"],
     [id |-> "regulation-focused", label |-> "Regulation-Focused"],
     [id |-> "market-focused", label |-> "Market-Focused"],
     [id |-> "infra-focused", label |-> "Infra-Focused"],
     [id |-> "cost-focused", label |-> "Cost-Focused"] >>

scenariosInit ==
  << [id |-> "balanced", label |-> "Balanced"],
     [id |-> "talent-focused", label |-> "Talent-Focused"],
     [id |-> "regulation-focused", label |-> "Regulation-Focused"],
     [id |-> "market-focused", label |-> "Market-Focused"],
     [id |-> "infra-focused", label |-> "Infra-Focused"] >>

strategiesInit ==
  << [id |-> "balanced", title |-> "Balanced",
      subtitle |-> "Equal consideration across all factors"],
     [id |-> "talent-focused", title |-> "Talent-Focused",
      subtitle |-> "For AI startups that care about hiring"],
     [id |-> "regulation-focused", title |-> "Regulation-Focused",
      subtitle |-> "Prioritize favorable regulatory environments"],
     [id |-> "market-focused", title |-> "Market-Focused",
      subtitle |-> "Emphasize market size and economic potential"],
     [id |-> "infra-focused", title |-> "Infra-Focused",
      subtitle |-> "Optimize for digital infrastructure quality"] >>

weightsInit ==
  << [id |-> "regulation", label |-> "Regulation Complexity",
      technicalLabel |-> "RC_score", value |-> 25],
     [id |-> "market", label |-> "Market Size",
      technicalLabel |-> "gdp_per_capita", value |-> 25],
     [id |-> "infrastructure", label |-> "Digital Infrastructure",
      technicalLabel |-> "digital_infra_index", value |-> 25],
     [id |-> "talent", label |-> "AI Job Market",
      technicalLabel |-> "ai_job_market_score", value |-> 25] >>

\* the codes of CountryMap's table, none of which is an ISO code of scenarioData
countryCodes ==
  {"US", "SG", "UK", "DE", "CA", "JP", "AU", "FR", "KR", "NL", "SE", "CH"}

---------------------------------------------------------------------------
(* JavaScript values and number formatting *)

nullObject == [typeof |-> "null"]            \* null where an object is expected
undefinedObject == [typeof |-> "undefined"]  \* undefined where an object is expected

Digit == << "0", "1", "2", "3", "4", "5", "6", "7", "8", "9" >>

RECURSIVE NatStr(_)
\* String(n) of a natural number n
NatStr(n) ==
  IF n < 10 THEN Digit[n + 1] ELSE NatStr(n \div 10) \o Digit[(n % 10) + 1]

RECURSIVE Pow10(_)
Pow10(k) == IF k = 0 THEN 1 ELSE 10 * Pow10(k - 1)

RECURSIVE PadStart(_, _)
\* the decimal digits of n, padded with zeros on the left to width digits
PadStart(n, width) ==
  IF width <= 1 THEN NatStr(n)
  ELSE IF n < Pow10(width - 1) THEN "0" \o PadStart(n, width - 1)
  ELSE NatStr(n)

\* Number.prototype.toFixed(digits) of the number m / 10^scale, m >= 0:
\* the nearest number with that many decimals, the larger one on a tie
toFixed(m, scale, digits) ==
  LET n == IF digits >= scale
             THEN m * Pow10(digits - scale)
             ELSE (2 * m + Pow10(scale - digits)) \div (2 * Pow10(scale - digits))
  IN  IF digits = 0 THEN NatStr(n)
      ELSE NatStr(n \div Pow10(digits)) \o "." \o PadStart(n % Pow10(digits), digits)

GroupSeparator(loc) == IF loc = "de-DE" THEN "." ELSE ","

RECURSIVE Grouped(_, _)
Grouped(n, sep) ==
  IF n < 1000 THEN NatStr(n)
  ELSE Grouped(n \div 1000, sep) \o sep \o PadStart(n % 1000, 3)

\* Number.prototype.toLocaleString() of a natural number
toLocaleString(n, loc) == Grouped(n, GroupSeparator(loc))

\* selectedScenario.replace('-', ' ') on the strings that occur as ids
replaceHyphen(s) ==
  CASE s = "talent-focused" -> "talent focused"
    [] s = "regulation-focused" -> "regulation focused"
    [] s = "market-focused" -> "market focused"
    [] s = "infra-focused" -> "infra focused"
    [] OTHER -> s

\* Array.prototype.find(c => c.iso === iso): the first match, or undefined
find(list, iso) ==
  LET hits == { i \in DOMAIN list : list[i].iso = iso }
  IN  IF hits = {} THEN undefinedObject
      ELSE list[CHOOSE i \in hits : \A j \in hits : i <= j]

\* x || null for an object or undefined x
orNull(x) == IF x = undefinedObject THEN nullObject ELSE x

---------------------------------------------------------------------------
(* Rendering *)

crashed == [screen |-> "crashed"]  \* an uncaught TypeError in render

\* the tab of the strategy chosen on the configuration screen is highlighted
ScenarioTabs_ByStrategy(w) ==
  [ i \in DOMAIN w.scenarios |->
      [ id |-> w.scenarios[i].id,
        label |-> w.scenarios[i].label,
        highlighted |-> (w.selectedStrategy = w.scenarios[i].id) ] ]

ScenarioTabs(w) ==
  [ i \in DOMAIN w.scenarios |->
      [ id |-> w.scenarios[i].id,
        label |-> w.scenarios[i].label,
        highlighted |-> (w.selectedScenario = w.scenarios[i].id) ] ]

StrategySelector(w) ==
  [ i \in DOMAIN w.strategies |->
      [ id |-> w.strategies[i].id,
        title |-> w.strategies[i].title,
        subtitle |-> w.strategies[i].subtitle,
        highlighted |-> (w.selectedStrategy = w.strategies[i].id) ] ]

WeightAdjuster(w) ==
  [ i \in DOMAIN w.weights |->
      [ id |-> w.weights[i].id,
        label |-> w.weights[i].label,
        technicalLabel |-> w.weights[i].technicalLabel,
        text |-> NatStr(w.weights[i].value) \o "%",
        value |-> w.weights[i].value,
        min |-> SliderMin, max |-> SliderMax, step |-> SliderStep ] ]

ResultsTable(results, selCountry, loc) ==
  [ i \in DOMAIN results |->
      [ iso |-> results[i].iso,
        highlighted |-> (selCountry = results[i].iso),
        rank |-> results[i].rank,
        country |-> results[i].country,
        topsisScore |-> toFixed(results[i].topsisScore, 3, 3),
        barWidth |-> results[i].topsisScore * 100,  \* percent, in thousandths
        rcScore |-> toFixed(results[i].rcScore, 1, 2),
        gdpPerCapita |-> toLocaleString(results[i].gdpPerCapita, loc),
        digitalInfra |-> toFixed(results[i].digitalInfra, 1, 2),
        jobMarket |-> toFixed(results[i].jobMarket, 1, 2) ] ]

\* GDP per capita drawn in dollars, not in thousands of dollars
radarData_RawGdp(countryDetail) ==
  << [ metric |-> "RC Score", value |-> countryDetail.rcScore * 100,
       fullMark |-> FullMark ],
     [ metric |-> "GDP/Capita", value |-> countryDetail.gdpPerCapita * 1000,
       fullMark |-> FullMark ],
     [ metric |-> "Digital Infra", value |-> countryDetail.digitalInfra * 100,
       fullMark |-> FullMark ],
     [ metric |-> "Job Market", value |-> countryDetail.jobMarket * 100,
       fullMark |-> FullMark ] >>

\* the four points of the radar chart; gdpPerCapita / 1000 in thousandths is
\* gdpPerCapita
radarData(countryDetail) ==
  << [ metric |-> "RC Score", value |-> countryDetail.rcScore * 100,
       fullMark |-> FullMark ],
     [ metric |-> "GDP/Capita", value |-> countryDetail.gdpPerCapita,
       fullMark |-> FullMark ],
     [ metric |-> "Digital Infra", value |-> countryDetail.digitalInfra * 100,
       fullMark |-> FullMark ],
     [ metric |-> "Job Market", value |-> countryDetail.jobMarket * 100,
       fullMark |-> FullMark ] >>

CountryDetailCard(countryDetail) ==
  IF countryDetail = nullObject
    THEN [ kind |-> "placeholder", text |-> "Select a country to view details" ]
    ELSE [ kind |-> "detail",
           country |-> countryDetail.country,
           rank |-> "Rank #" \o NatStr(countryDetail.rank),
           score |-> "Score: " \o toFixed(countryDetail.topsisScore, 3, 3),
           iso |-> countryDetail.iso,
           \* the radar values, in thousandths
           radarData |-> radarData(countryDetail),
           rcScore |-> toFixed(countryDetail.rcScore, 1, 2),
           gdpPerCapita |-> "$" \o toFixed(countryDetail.gdpPerCapita, 3, 0) \o "k",
           digitalInfra |-> toFixed(countryDetail.digitalInfra, 1, 2),
           jobMarket |-> toFixed(countryDetail.jobMarket, 1, 2),
           description |-> countryDetail.description ]

\* the table of the initial scenario, whatever tab is selected
currentResults_Initial(w) == w.scenarioData["talent-focused"]

\* scenarioData[selectedScenario], the rows shown
currentResults(w) == w.scenarioData[w.selectedScenario]

\* scenarioWeights[selectedScenario], the weights shown
currentWeights(w) == w.scenarioWeights[w.selectedScenario]

\* the first row stands in when the selection resolves to no record
selectedCountryDetail_FirstRow(w) ==
  LET hit == find(currentResults(w), w.selectedCountry)
  IN  IF hit # undefinedObject THEN hit
      ELSE IF Len(currentResults(w)) > 0 THEN currentResults(w)[1]
      ELSE nullObject

\* the record the detail card is given
selectedCountryDetail(w) == orNull(find(currentResults(w), w.selectedCountry))

\* ResultsScreen renders without a TypeError
Renders(w) ==
  /\ w.selectedScenario \in DOMAIN w.scenarioData
  /\ w.selectedScenario \in DOMAIN w.scenarioWeights

ResultsScreen(w) ==
  IF ~Renders(w)
    THEN crashed  \* currentResults.find / currentWeights.rc of undefined
    ELSE [ screen |-> "results",
           tabs |-> ScenarioTabs(w),
           activeScenario |-> replaceHyphen(w.selectedScenario),
           weights |-> [ rc |-> toFixed(currentWeights(w).rc, 2, 2),
                         gdp |-> toFixed(currentWeights(w).gdp, 2, 2),
                         infra |-> toFixed(currentWeights(w).infra, 2, 2),
                         job |-> toFixed(currentWeights(w).job, 2, 2) ],
           rows |-> ResultsTable(currentResults(w), w.selectedCountry, w.locale),
           card |-> CountryDetailCard(selectedCountryDetail(w)) ]

\* what App returns
App(w) ==
  IF w.showResults
    THEN ResultsScreen(w)
    ELSE [ screen |-> "config",
           strategyButtons |-> StrategySelector(w),
           sliders |-> WeightAdjuster(w) ]

\* ResultsScreen opens on the strategy selected on the configuration screen
Commit_FromStrategy(w) ==
  IF w.showResults
    THEN IF w.selectedScenario = unmounted
           THEN [ w EXCEPT !.selectedScenario = w.selectedStrategy,
                           !.selectedCountry = "USA" ]
           ELSE w
    ELSE [ w EXCEPT !.selectedScenario = unmounted,
                    !.selectedCountry = unmounted ]

\* ResultsScreen is hidden, not unmounted: its state outlives Back
Commit_KeepsState(w) ==
  IF w.showResults /\ w.selectedScenario = unmounted
    THEN [ w EXCEPT !.selectedScenario = "talent-focused",
                    !.selectedCountry = "USA" ]
    ELSE w

\* React's commit: ResultsScreen is mounted with its initial state when App
\* starts to return it and its state is discarded when App stops returning it
Commit(w) ==
  IF w.showResults
    THEN IF w.selectedScenario = unmounted
           THEN [ w EXCEPT !.selectedScenario = "talent-focused",
                           !.selectedCountry = "USA" ]
           ELSE w
    ELSE [ w EXCEPT !.selectedScenario = unmounted,
                    !.selectedCountry = unmounted ]

---------------------------------------------------------------------------
(* Event handlers: from a world to the world after the handler *)

\* selecting a strategy also sets the sliders to the weights of that scenario
setSelectedStrategy_WithPreset(w, strategyId) ==
  [ w EXCEPT !.selectedStrategy = strategyId,
             !.weights =
               [ i \in DOMAIN w.weights |->
                   [ w.weights[i] EXCEPT !.value =
                       CASE i = 1 -> w.scenarioWeights[strategyId].rc
                         [] i = 2 -> w.scenarioWeights[strategyId].gdp
                         [] i = 3 -> w.scenarioWeights[strategyId].infra
                         [] OTHER -> w.scenarioWeights[strategyId].job ] ] ]

setSelectedStrategy(w, strategyId) == [ w EXCEPT !.selectedStrategy = strategyId ]

handleWeightChange(w, id, value) ==
  [ w EXCEPT !.weights =
      [ i \in DOMAIN w.weights |->
          IF w.weights[i].id = id
            THEN [ w.weights[i] EXCEPT !.value = value ]
            ELSE w.weights[i] ] ]

\* Run Analysis writes the slider values into the weights of the strategy
handleRunAnalysis_StoresWeights(w) ==
  [ w EXCEPT !.showResults = TRUE,
             !.scenarioWeights[w.selectedStrategy] =
               [ rc |-> w.weights[1].value, gdp |-> w.weights[2].value,
                 infra |-> w.weights[3].value, job |-> w.weights[4].value ] ]

\* Run Analysis shows the results only when the weights sum to 100
handleRunAnalysis_Validates(w) ==
  IF w.weights[1].value + w.weights[2].value
       + w.weights[3].value + w.weights[4].value = 100
    THEN [ w EXCEPT !.showResults = TRUE ]
    ELSE w

handleRunAnalysis(w) == [ w EXCEPT !.showResults = TRUE ]

\* Back also puts the configuration back to its initial values
onBack_ResetsConfiguration(w) ==
  [ w EXCEPT !.showResults = FALSE,
             !.selectedStrategy = "balanced",
             !.weights = weightsInit ]

onBack(w) == [ w EXCEPT !.showResults = FALSE ]

\* a tab click also selects the top country of the scenario of the tab
setSelectedScenario_ResetsCountry(w, scenario) ==
  [ w EXCEPT !.selectedScenario = scenario,
             !.selectedCountry = w.scenarioData[scenario][1].iso ]

setSelectedScenario(w, scenario) == [ w EXCEPT !.selectedScenario = scenario ]

setSelectedCountry(w, iso) == [ w EXCEPT !.selectedCountry = iso ]

---------------------------------------------------------------------------
(* The state machine *)

\* the current world of the program
World ==
  [ showResults |-> showResults,
    selectedStrategy |-> selectedStrategy,
    weights |-> weights,
    selectedScenario |-> selectedScenario,
    selectedCountry |-> selectedCountry,
    scenarioData |-> scenarioData,
    scenarioWeights |-> scenarioWeights,
    scenarios |-> scenarios,
    strategies |-> strategies,
    locale |-> locale ]

\* the world when the page has loaded and App has been mounted
WorldInit(loc) ==
  [ showResults |-> FALSE,
    selectedStrategy |-> "balanced",
    weights |-> weightsInit,
    selectedScenario |-> unmounted,
    selectedCountry |-> unmounted,
    scenarioData |-> scenarioDataInit,
    scenarioWeights |-> scenarioWeightsInit,
    scenarios |-> scenariosInit,
    strategies |-> strategiesInit,
    locale |-> loc ]

\* the program moves to world w
Becomes(w) ==
  /\ showResults' = w.showResults
  /\ selectedStrategy' = w.selectedStrategy
  /\ weights' = w.weights
  /\ selectedScenario' = w.selectedScenario
  /\ selectedCountry' = w.selectedCountry
  /\ scenarioData' = w.scenarioData
  /\ scenarioWeights' = w.scenarioWeights
  /\ scenarios' = w.scenarios
  /\ strategies' = w.strategies
  /\ locale' = w.locale

\* the second run moves to world w (what it shows is App(twin))
TwinBecomes(w) == twin' = w

\* no tab and no row has been clicked since the results screen was entered,
\* and no slider has been moved since the last other event
noClick == [ tab |-> "none", row |-> "none", slider |-> << >> ]

\* the render harness has not rendered yet
pending == [ screen |-> "pending" ]

\* the world as the last render of App saw it: the handlers attached to the
\* page are those of that render and read its weights (App.tsx line 45 reads
\* the weights of the render, not the state at the time of the call); the
\* other state cannot have changed since, every other event being followed
\* by a render
Closure == [ World EXCEPT !.weights = captured ]

\* what is on screen: what App returned at its last render
view == App(Closure)

\* App is mounted; the browser's locale is en-US here (the render harness
\* below renders ResultsScreen under every locale)
Init ==
  /\ showResults = WorldInit("en-US").showResults
  /\ selectedStrategy = WorldInit("en-US").selectedStrategy
  /\ weights = WorldInit("en-US").weights
  /\ captured = WorldInit("en-US").weights
  /\ selectedScenario = WorldInit("en-US").selectedScenario
  /\ selectedCountry = WorldInit("en-US").selectedCountry
  /\ scenarioData = WorldInit("en-US").scenarioData
  /\ scenarioWeights = WorldInit("en-US").scenarioWeights
  /\ scenarios = WorldInit("en-US").scenarios
  /\ strategies = WorldInit("en-US").strategies
  /\ locale = WorldInit("en-US").locale
  /\ twin = WorldInit("en-US")
  /\ leftChanged = FALSE
  /\ clicked = noClick
  /\ rendered = pending

\* a strategy button is clicked (a click is rendered before the next event);
\* the second run leaves its configuration alone
SelectStrategy ==
  /\ ~showResults
  /\ \E i \in DOMAIN StrategySelector(Closure) :
       Becomes(Commit(setSelectedStrategy(World, StrategySelector(Closure)[i].id)))
  /\ captured' = weights'
  /\ clicked' = [ clicked EXCEPT !.slider = << >> ]
  /\ UNCHANGED << twin, leftChanged, rendered >>

\* a slider is moved: onValueChange calls the handleWeightChange of the last
\* render, which sets the weights to a list computed from the weights of
\* that render; the render of the new state is scheduled (Rerender) and
\* another slider event can be handled before it.  The second run leaves
\* its configuration alone
ChangeWeight ==
  /\ ~showResults
  /\ \E i \in DOMAIN WeightAdjuster(Closure), v \in SliderValues :
       /\ Becomes(Commit(handleWeightChange(Closure, WeightAdjuster(Closure)[i].id, v)))
       /\ clicked' = [ clicked EXCEPT !.slider = << WeightAdjuster(Closure)[i].id, v >> ]
  /\ UNCHANGED << captured, twin, leftChanged, rendered >>

\* React renders App with the new weights and attaches the new handlers
Rerender ==
  /\ captured # weights
  /\ captured' = weights
  /\ UNCHANGED << showResults, selectedStrategy, weights, selectedScenario,
                  selectedCountry, scenarioData, scenarioWeights, scenarios,
                  strategies, locale, twin, leftChanged, clicked, rendered >>

\* Run Analysis is clicked, in both runs
RunAnalysis ==
  /\ ~showResults
  /\ Becomes(Commit(handleRunAnalysis(World)))
  /\ TwinBecomes(Commit(handleRunAnalysis(twin)))
  /\ captured' = weights'
  /\ clicked' = noClick
  /\ UNCHANGED << leftChanged, rendered >>

\* Back to Configuration is clicked, in both runs
Back ==
  /\ showResults
  /\ Renders(World)
  /\ Becomes(Commit(onBack(World)))
  /\ TwinBecomes(Commit(onBack(twin)))
  /\ leftChanged' = (leftChanged \/ selectedScenario # "talent-focused"
                                  \/ selectedCountry # "USA")
  /\ captured' = weights'
  /\ clicked' = noClick
  /\ UNCHANGED rendered

\* a scenario tab is clicked, in both runs
SelectScenario ==
  /\ showResults
  /\ Renders(World)
  /\ \E i \in DOMAIN ScenarioTabs(World) :
       /\ Becomes(Commit(setSelectedScenario(World, ScenarioTabs(World)[i].id)))
       /\ TwinBecomes(Commit(setSelectedScenario(twin, ScenarioTabs(World)[i].id)))
       /\ clicked' = [ clicked EXCEPT !.tab = ScenarioTabs(World)[i].id ]
  /\ captured' = weights'
  /\ UNCHANGED << leftChanged, rendered >>

\* a table row is clicked, in both runs
SelectCountry ==
  /\ showResults
  /\ Renders(World)
  /\ \E i \in DOMAIN currentResults(World) :
       /\ Becomes(Commit(setSelectedCountry(World, currentResults(World)[i].iso)))
       /\ TwinBecomes(Commit(setSelectedCountry(twin, currentResults(World)[i].iso)))
       /\ clicked' = [ clicked EXCEPT !.row = currentResults(World)[i].iso ]
  /\ captured' = weights'
  /\ UNCHANGED << leftChanged, rendered >>

Next ==
  \/ SelectStrategy
  \/ ChangeWeight
  \/ Rerender
  \/ RunAnalysis
  \/ Back
  \/ SelectScenario
  \/ SelectCountry

Spec == Init /\ [][Next]_vars

---------------------------------------------------------------------------
(* ResultsScreen as a function of its state and of the table: it is         *)
(* rendered once for every scenario, every value of selectedCountry (null,  *)
(* an ISO code, a code of CountryMap) and every prefix of the tables.       *)

Prefix(list, n) == SubSeq(list, 1, IF n < Len(list) THEN n ELSE Len(list))

CardInit ==
  /\ showResults = TRUE
  /\ selectedStrategy = "balanced"
  /\ weights = weightsInit
  /\ captured = weightsInit
  /\ selectedScenario \in DOMAIN scenarioDataInit
  /\ selectedCountry \in
       {null} \cup countryCodes
         \cup { scenarioDataInit["balanced"][i].iso : i \in DOMAIN scenarioDataInit["balanced"] }
  /\ \E n \in 0..MaxRows :
       scenarioData = [ s \in DOMAIN scenarioDataInit |-> Prefix(scenarioDataInit[s], n) ]
  /\ scenarioWeights = scenarioWeightsInit
  /\ scenarios = scenariosInit
  /\ strategies = strategiesInit
  /\ locale \in Locales
  /\ rendered = pending
  /\ twin = WorldInit(locale)
  /\ leftChanged = FALSE
  /\ clicked = noClick

RenderResultsScreen ==
  /\ rendered = pending
  /\ rendered' = ResultsScreen(World)
  /\ UNCHANGED << showResults, selectedStrategy, weights, captured,
                  selectedScenario, selectedCountry, scenarioData,
                  scenarioWeights, scenarios, strategies, locale, twin,
                  leftChanged, clicked >>

CardNext == RenderResultsScreen

SpecCard == CardInit /\ [][CardNext]_vars

---------------------------------------------------------------------------
(* Claims *)

\* the weight quadruple as ResultsScreen prints it
WeightsText(q) ==
  [ rc |-> toFixed(q.rc, 2, 2), gdp |-> toFixed(q.gdp, 2, 2),
    infra |-> toFixed(q.infra, 2, 2), job |-> toFixed(q.job, 2, 2) ]

\* row r of the table on screen shows record c
RowShows(r, c) ==
  /\ r.rank = c.rank
  /\ r.iso = c.iso
  /\ r.country = c.country
  /\ r.topsisScore = toFixed(c.topsisScore, 3, 3)
  /\ r.rcScore = toFixed(c.rcScore, 1, 2)
  /\ r.gdpPerCapita = toLocaleString(c.gdpPerCapita, locale)
  /\ r.digitalInfra = toFixed(c.digitalInfra, 1, 2)
  /\ r.jobMarket = toFixed(c.jobMarket, 1, 2)

\* the rows on screen are the records of list, in the order of list
RowsShow(rows, list) ==
  /\ DOMAIN rows = DOMAIN list
  /\ \A i \in DOMAIN list : RowShows(rows[i], list[i])

\* C1: on the results screen the weights shown are those of
\* scenarioWeights[selectedScenario] and the rows shown are the records of
\* scenarioData[selectedScenario] in the same order, and they are those of no
\* other scenario; once a tab has been clicked, selectedScenario is the tab
\* clicked last
C1_ShowsSelectedScenario ==
  showResults =>
    LET shown == view
    IN  /\ clicked.tab # "none" => selectedScenario = clicked.tab
        /\ shown.screen = "results"
        /\ shown.weights = WeightsText(scenarioWeights[selectedScenario])
        /\ RowsShow(shown.rows, scenarioData[selectedScenario])
        /\ \A t \in DOMAIN scenarioData \ {selectedScenario} :
             /\ shown.weights # WeightsText(scenarioWeights[t])
             /\ ~RowsShow(shown.rows, scenarioData[t])

\* the infra-focused tab has been clicked and its weights and ranking are shown
C1_Witness ==
  /\ showResults
  /\ clicked.tab = "infra-focused"
  /\ selectedScenario = "infra-focused"
  /\ view.weights = [ rc |-> "0.20", gdp |-> "0.20", infra |-> "0.40", job |-> "0.20" ]
  /\ view.rows[1].iso = "KOR"
  /\ view.rows[1].topsisScore = "0.934"
  /\ view.rows[1].gdpPerCapita = "35,196"

\* the indices of the records of the current scenario with ISO code selectedCountry
Resolved == { i \in DOMAIN scenarioData[selectedScenario] :
                scenarioData[selectedScenario][i].iso = selectedCountry }

\* the detail card shows record c
CardShows(card, c) ==
  /\ card.kind = "detail"
  /\ card.iso = c.iso
  /\ card.country = c.country
  /\ card.rank = "Rank #" \o NatStr(c.rank)
  /\ card.score = "Score: " \o toFixed(c.topsisScore, 3, 3)
  /\ card.description = c.description

\* C2: the detail card is the placeholder exactly when selectedCountry is null
\* or no record of the current scenario has that ISO code; otherwise it shows
\* the record of the current scenario whose iso is selectedCountry
C2_PlaceholderIffUnresolved ==
  rendered.screen = "results" =>
    /\ rendered.card.kind \in {"placeholder", "detail"}
    /\ rendered.card.kind = "placeholder" <=> (selectedCountry = null \/ Resolved = {})
    /\ rendered.card.kind = "placeholder" =>
         rendered.card.text = "Select a country to view details"
    /\ Resolved # {} =>
         \E i \in Resolved :
           /\ scenarioData[selectedScenario][i].iso = selectedCountry
           /\ CardShows(rendered.card, scenarioData[selectedScenario][i])

\* ResultsScreen was rendered with selectedCountry null and shows the placeholder
C2_Witness ==
  /\ rendered.screen = "results"
  /\ selectedCountry = null
  /\ Len(scenarioData[selectedScenario]) = 6
  /\ rendered.card.kind = "placeholder"

\* C3: the static tables hold their load-time values in every reachable state
C3_TablesNeverMutated ==
  /\ scenarioData = scenarioDataInit
  /\ scenarioWeights = scenarioWeightsInit
  /\ scenarios = scenariosInit
  /\ strategies = strategiesInit

\* every kind of user action has happened and the tables are as loaded
C3_Witness ==
  /\ showResults
  /\ leftChanged
  /\ selectedStrategy = "market-focused"
  /\ weights[2].value = 0
  /\ selectedScenario = "regulation-focused"
  /\ selectedCountry = "DEU"
  /\ scenarioData = scenarioDataInit
  /\ scenarioWeights = scenarioWeightsInit

\* C4: what the results screen shows does not depend on the configuration: a
\* second run that leaves the configuration at its defaults, and receives the
\* same Run Analysis, Back, tab and row clicks, shows the same scenario,
\* weights, rows and detail card (so any two runs show the same); until a
\* tab is clicked the scenario is 'talent-focused' and until a row is clicked
\* the country is 'USA'
C4_ResultsIndependentOfConfiguration ==
  /\ showResults = twin.showResults
  /\ showResults =>
       /\ clicked.tab = "none" => selectedScenario = "talent-focused"
       /\ clicked.row = "none" => selectedCountry = "USA"
       /\ selectedScenario = twin.selectedScenario
       /\ selectedCountry = twin.selectedCountry
       /\ view = App(twin)

\* the two runs differ in strategy and weights and show the same results
C4_Witness ==
  /\ showResults
  /\ selectedStrategy = "infra-focused"
  /\ twin.selectedStrategy = "balanced"
  /\ weights[1].value = 0
  /\ twin.weights[1].value = 25
  /\ selectedScenario = "market-focused"
  /\ selectedCountry = "CAN"
  /\ view = App(twin)

\* the ids of a list of records with an id
Ids(list) == { list[i].id : i \in DOMAIN list }

\* C5: the tab ids, the strategy ids, the keys of scenarioData and the keys of
\* scenarioWeights are the same set of five, and on the results screen
\* selectedScenario is a key of both tables
C5_ScenarioIdsAgree ==
  /\ Cardinality(Ids(scenarios)) = 5
  /\ Len(scenarios) = 5
  /\ Len(strategies) = 5
  /\ Ids(scenarios) = Ids(strategies)
  /\ Ids(scenarios) = DOMAIN scenarioData
  /\ Ids(scenarios) = DOMAIN scenarioWeights
  /\ showResults =>
       /\ selectedScenario \in DOMAIN scenarioData
       /\ selectedScenario \in DOMAIN scenarioWeights
       /\ view.screen # "crashed"

\* the last tab has been clicked and the screen is rendered from both tables
C5_Witness ==
  /\ showResults
  /\ selectedScenario = scenarios[5].id
  /\ view.screen = "results"
  /\ Len(view.rows) = 6
  /\ view.weights.infra = "0.40"

\* C6: in every scenario the records are listed with ranks 1, 2, ..., n in
\* list order and the composite score strictly decreases down the list
C6_RanksConsistent ==
  \A s \in DOMAIN scenarioData :
    /\ \A i \in DOMAIN scenarioData[s] : scenarioData[s][i].rank = i
    /\ \A i, j \in DOMAIN scenarioData[s] :
         i < j => scenarioData[s][i].topsisScore > scenarioData[s][j].topsisScore

\* the regulation-focused ranking is on screen, ranks 1 to 6 from top to bottom
C6_Witness ==
  /\ showResults
  /\ selectedScenario = "regulation-focused"
  /\ Len(view.rows) = 6
  /\ \A i \in 1..6 : view.rows[i].rank = i
  /\ view.rows[1].topsisScore = "0.887"
  /\ view.rows[6].topsisScore = "0.743"

\* the criterion a focused scenario weights most
FocusOf(s) ==
  CASE s = "talent-focused" -> "job"
    [] s = "regulation-focused" -> "rc"
    [] s = "market-focused" -> "gdp"
    [] s = "infra-focused" -> "infra"

\* C7: every weight quadruple sums to 100 hundredths; balanced gives 25 to
\* each criterion and each focused scenario gives 40 to its own criterion and
\* 20 to each of the other three
C7_WeightsValid ==
  /\ DOMAIN scenarioWeights =
       {"balanced", "talent-focused", "regulation-focused", "market-focused",
        "infra-focused"}
  /\ \A s \in DOMAIN scenarioWeights :
       LET q == scenarioWeights[s]
       IN  /\ q.rc + q.gdp + q.infra + q.job = 100
           /\ s = "balanced" => \A k \in DOMAIN q : q[k] = 25
           /\ s # "balanced" =>
                \A k \in DOMAIN q : q[k] = IF k = FocusOf(s) THEN 40 ELSE 20

\* the talent-focused weights are on screen
C7_Witness ==
  /\ showResults
  /\ selectedScenario = "talent-focused"
  /\ ~leftChanged
  /\ view.weights = [ rc |-> "0.20", gdp |-> "0.20", infra |-> "0.20", job |-> "0.40" ]

\* C8: the selections of the results screen are local to it: they are
\* discarded on Back, and every entry by Run Analysis starts from
\* selectedScenario 'talent-focused' and selectedCountry 'USA'
C8_SelectionsResetOnEntry ==
  [][ /\ (~showResults /\ showResults') =>
           (selectedScenario' = "talent-focused" /\ selectedCountry' = "USA")
      /\ (showResults /\ ~showResults') =>
           (selectedScenario' = unmounted /\ selectedCountry' = unmounted) ]_vars

\* the results screen was left with other selections and is entered again
C8_Witness ==
  /\ showResults
  /\ leftChanged
  /\ selectedScenario = "talent-focused"
  /\ selectedCountry = "USA"
  /\ view.tabs[2].highlighted
  /\ view.card.kind = "detail"
  /\ view.card.iso = "USA"

\* C9: Run Analysis and Back change showResults and leave the configuration
\* alone, and so does every click on the results screen: selectedStrategy
\* and the weights after Back are those before Run Analysis
C9_ConfigurationSurvivesRoundTrip ==
  [][ /\ (showResults \/ showResults') =>
           (selectedStrategy' = selectedStrategy /\ weights' = weights)
      /\ (~showResults /\ showResults') =>
           UNCHANGED << scenarioData, scenarioWeights, scenarios, strategies >>
      /\ (showResults /\ ~showResults') =>
           UNCHANGED << scenarioData, scenarioWeights, scenarios, strategies >> ]_vars

\* back on the configuration screen after clicks on the results screen, with
\* a configuration that is not the initial one
C9_Witness ==
  /\ ~showResults
  /\ leftChanged
  /\ selectedStrategy = "regulation-focused"
  /\ weights[1].value = 0
  /\ weights[4].value = 0
  /\ view.screen = "config"
  /\ view.sliders[4].text = "0%"

\* C10: a step that changes selectedStrategy changes nothing else of App:
\* the four weights and showResults are as before
C10_StrategyChangesOnlyStrategy ==
  [][ selectedStrategy' # selectedStrategy =>
        /\ weights' = weights
        /\ showResults' = showResults
        /\ ~showResults ]_vars

\* a strategy was selected and the sliders still stand at their initial values
C10_Witness ==
  /\ ~showResults
  /\ ~leftChanged
  /\ selectedStrategy = "talent-focused"
  /\ weights = weightsInit
  /\ view.strategyButtons[2].highlighted
  /\ \A i \in 1..4 : view.sliders[i].text = "25%"

\* the value of the weight with the given id in a list of weights
valueOf(list, id) ==
  list[CHOOSE i \in DOMAIN list : list[i].id = id].value

\* C11: a slider event (id, v) sets the value of the weight with that id to v
\* and leaves everything else as it was before the event: the other weights
\* keep their values, the list keeps its entries, order, ids and labels (an
\* id of no weight changes nothing), and selectedStrategy and showResults
\* are unchanged
C11_WeightChangeSetsOnlyOneValue ==
  [][ clicked'.slider # << >> =>
        /\ DOMAIN weights' = DOMAIN weights
        /\ \A i \in DOMAIN weights :
             weights'[i] = IF weights[i].id = clicked'.slider[1]
                             THEN [ weights[i] EXCEPT !.value = clicked'.slider[2] ]
                             ELSE weights[i]
        /\ selectedStrategy' = selectedStrategy
        /\ showResults' = showResults ]_vars

\* C12: the program starts on the configuration screen with strategy
\* 'balanced' and the weights regulation, market, infrastructure, talent at
\* 25 each; showResults becomes true only by Run Analysis and false only by
\* Back; and in every state of the configuration screen, whatever the
\* weights, Run Analysis can be clicked and leads to the results screen
C12_RunAnalysisNeverRefused ==
  /\ ~showResults
  /\ view.screen = "config"
  /\ selectedStrategy = "balanced"
  /\ [ i \in DOMAIN weights |-> << weights[i].id, weights[i].value >> ] =
       << << "regulation", 25 >>, << "market", 25 >>,
          << "infrastructure", 25 >>, << "talent", 25 >> >>
  /\ [][ /\ (~showResults /\ showResults') => RunAnalysis
         /\ (showResults /\ ~showResults') => Back ]_vars
  /\ [](~showResults => ENABLED (RunAnalysis /\ showResults'))

\* the results screen is shown although every weight is zero
C12_Witness ==
  /\ showResults
  /\ \A i \in DOMAIN weights : weights[i].value = 0
  /\ view.screen = "results"

\* the record of scenario s with ISO code iso
recordOf(s, iso) ==
  scenarioData[s][CHOOSE i \in DOMAIN scenarioData[s] : scenarioData[s][i].iso = iso]

\* C13: on the results screen a tab click sets selectedScenario to the id of
\* the tab and changes nothing else, a row click sets selectedCountry to the
\* ISO code of the row (a row of the current scenario) and changes nothing
\* else; once a tab has been clicked the card shows the record the selected
\* scenario has for the selected country, and the record of no other
\* scenario
C13_ClicksChangeOnlyTheirSelection ==
  /\ [][ (showResults /\ showResults') =>
            /\ UNCHANGED << selectedStrategy, weights, scenarioData,
                            scenarioWeights, scenarios, strategies >>
            /\ (clicked'.tab # clicked.tab \/ selectedScenario' # selectedScenario) =>
                 /\ selectedScenario' = clicked'.tab
                 /\ selectedCountry' = selectedCountry
                 /\ clicked'.row = clicked.row
            /\ (clicked'.row # clicked.row \/ selectedCountry' # selectedCountry) =>
                 /\ selectedCountry' = clicked'.row
                 /\ \E i \in DOMAIN scenarioData[selectedScenario] :
                      scenarioData[selectedScenario][i].iso = selectedCountry'
                 /\ selectedScenario' = selectedScenario
                 /\ clicked'.tab = clicked.tab ]_vars
  /\ []( (showResults /\ clicked.tab # "none") =>
            LET card == view.card
            IN  /\ CardShows(card, recordOf(selectedScenario, selectedCountry))
                /\ \A t \in DOMAIN scenarioData \ {selectedScenario} :
                     ~CardShows(card, recordOf(t, selectedCountry)) )

\* Germany was selected under the market-focused ranking and the
\* regulation-focused tab was clicked: the card shows Germany's
\* regulation-focused record
C13_Witness ==
  /\ showResults
  /\ clicked.row = "DEU"
  /\ clicked.tab = "regulation-focused"
  /\ selectedCountry = "DEU"
  /\ selectedScenario = "regulation-focused"
  /\ CardShows(view.card, recordOf("regulation-focused", "DEU"))
  /\ ~CardShows(view.card, recordOf("market-focused", "DEU"))

\* C14: when a slider event for weight A is followed by a slider event for
\* another weight B, with no other event between them, the weights hold
\* both values afterwards
C14_SliderUpdatesNotLost ==
  [][ ( /\ clicked.slider # << >>
        /\ clicked'.slider # << >>
        /\ clicked'.slider[1] # clicked.slider[1] ) =>
        /\ valueOf(weights', clicked.slider[1]) = clicked.slider[2]
        /\ valueOf(weights', clicked'.slider[1]) = clicked'.slider[2] ]_vars

\* the ISO codes of the records of scenario s
isoCodes(s) == { scenarioData[s][i].iso : i \in DOMAIN scenarioData[s] }

\* C15: on the results screen selectedCountry is never null and is the ISO
\* code of a record of every scenario (all scenarios list the codes of the
\* initial scenario, hence the codes of every row that can be clicked), so
\* the card on screen is never the placeholder but the detail of that country
C15_SelectionAlwaysResolves ==
  /\ \A s \in DOMAIN scenarioData : isoCodes(s) = isoCodes("talent-focused")
  /\ showResults =>
       LET shown == view
       IN  /\ selectedCountry # null
           /\ \A s \in DOMAIN scenarioData : selectedCountry \in isoCodes(s)
           /\ shown.screen = "results"
           /\ shown.card.kind = "detail"
           /\ shown.card.kind # "placeholder"
           /\ shown.card.iso = selectedCountry

\* the last row of one ranking was clicked, then the tab of another ranking:
\* the card shows that country
C15_Witness ==
  /\ showResults
  /\ clicked.row = "DEU"
  /\ clicked.tab = "infra-focused"
  /\ selectedCountry = "DEU"
  /\ view.card.kind = "detail"
  /\ view.card.country = "Germany"
  /\ view.card.rank = "Rank #6"

\* the indices of the highlighted entries of a list drawn on screen
Highlighted(list) == { i \in DOMAIN list : list[i].highlighted }

\* C16: on the results screen exactly one tab is highlighted, the tab of
\* selectedScenario, and exactly one row, the row of selectedCountry (no two
\* records of a scenario have the same ISO code); on the configuration
\* screen exactly one strategy button is highlighted, that of
\* selectedStrategy
C16_HighlightUnique ==
  LET shown == view
  IN  /\ showResults =>
           /\ Cardinality(Highlighted(shown.tabs)) = 1
           /\ \A i \in DOMAIN shown.tabs :
                shown.tabs[i].highlighted <=> shown.tabs[i].id = selectedScenario
           /\ Cardinality(Highlighted(shown.rows)) = 1
           /\ \A i \in DOMAIN shown.rows :
                shown.rows[i].highlighted <=> shown.rows[i].iso = selectedCountry
           /\ \A s \in DOMAIN scenarioData :
                Cardinality(isoCodes(s)) = Len(scenarioData[s])
      /\ ~showResults =>
           /\ Cardinality(Highlighted(shown.strategyButtons)) = 1
           /\ \A i \in DOMAIN shown.strategyButtons :
                shown.strategyButtons[i].highlighted
                  <=> shown.strategyButtons[i].id = selectedStrategy

\* the results are shown for a strategy other than the scenario of the
\* highlighted tab, with the third row highlighted
C16_Witness ==
  /\ showResults
  /\ selectedStrategy = "market-focused"
  /\ selectedScenario = "infra-focused"
  /\ selectedCountry = "GBR"
  /\ Highlighted(view.tabs) = {5}
  /\ Highlighted(view.rows) = {3}

\* C17: every scenario lists the six ISO codes USA, GBR, CAN, AUS, DEU, KOR
\* once each, and the record a scenario has for a country agrees with the
\* record the balanced scenario has for it (hence with the record of every
\* scenario) in the name and in the four sub-indicators; a record has no
\* field besides these, rank, topsisScore and description
C17_SameCountriesSameIndicators ==
  \A s \in DOMAIN scenarioData :
    /\ Len(scenarioData[s]) = 6
    /\ isoCodes(s) = {"USA", "GBR", "CAN", "AUS", "DEU", "KOR"}
    /\ \A i \in DOMAIN scenarioData[s] :
         LET c == scenarioData[s][i]
             b == recordOf("balanced", c.iso)
         IN  /\ DOMAIN c =
                  {"rank", "iso", "country", "topsisScore", "rcScore",
                   "gdpPerCapita", "digitalInfra", "jobMarket", "description"}
             /\ c.iso = b.iso
             /\ c.country = b.country
             /\ c.rcScore = b.rcScore
             /\ c.gdpPerCapita = b.gdpPerCapita
             /\ c.digitalInfra = b.digitalInfra
             /\ c.jobMarket = b.jobMarket

\* South Korea is shown under the infra-focused ranking, where it is first,
\* with the indicators it has under the balanced ranking, where it is last
C17_Witness ==
  /\ showResults
  /\ selectedScenario = "infra-focused"
  /\ selectedCountry = "KOR"
  /\ view.rows[1].iso = "KOR"
  /\ scenarioData["balanced"][6].iso = "KOR"
  /\ view.rows[1].digitalInfra = toFixed(scenarioData["balanced"][6].digitalInfra, 1, 2)
  /\ view.card.digitalInfra = "92.50"

\* the value record c has for a criterion of the weight quadruples
criterionOf(c, k) ==
  CASE k = "rc" -> c.rcScore
    [] k = "gdp" -> c.gdpPerCapita
    [] k = "infra" -> c.digitalInfra
    [] k = "job" -> c.jobMarket

\* C18: each focused scenario weights one criterion at 0.40, the criterion of
\* its name, and the record it ranks first has a greater value of that
\* criterion than every other record of the scenario
C18_FocusedCriterionDecidesFirstRank ==
  \A s \in DOMAIN scenarioData \ {"balanced"} :
    /\ { k \in DOMAIN scenarioWeights[s] : scenarioWeights[s][k] = 40 } = { FocusOf(s) }
    /\ \A k \in DOMAIN scenarioWeights[s] :
         scenarioWeights[s][k] = 40 =>
           \A i, j \in DOMAIN scenarioData[s] :
             (scenarioData[s][i].rank = 1 /\ j # i) =>
               criterionOf(scenarioData[s][i], k) > criterionOf(scenarioData[s][j], k)

\* the regulation-focused ranking is on screen: Canada, first, has the
\* highest RC score shown
C18_Witness ==
  /\ showResults
  /\ selectedScenario = "regulation-focused"
  /\ view.weights.rc = "0.40"
  /\ view.rows[1].iso = "CAN"
  /\ view.rows[1].rank = 1
  /\ view.rows[1].rcScore = "75.80"
  /\ view.rows[2].rcScore = "72.50"

\* C19: for every record of every scenario the four radar values lie within
\* 0 and the full mark 100 of the axis and the score lies within 0 and 1;
\* and so do the radar values of the card and the bar widths of the rows on
\* screen, which lie within 0 and 100 percent (all in thousandths)
C19_ValuesWithinDisplayRange ==
  /\ FullMark = 100
  /\ \A s \in DOMAIN scenarioData :
       \A i \in DOMAIN scenarioData[s] :
         LET points == radarData(scenarioData[s][i])
         IN  /\ scenarioData[s][i].topsisScore >= 0
             /\ scenarioData[s][i].topsisScore <= 1000
             /\ Len(points) = 4
             /\ \A k \in DOMAIN points :
                  /\ points[k].fullMark = FullMark
                  /\ points[k].value >= 0
                  /\ points[k].value <= FullMark * 1000
  /\ showResults =>
       LET shown == view
       IN  /\ \A i \in DOMAIN shown.rows :
                /\ shown.rows[i].barWidth >= 0
                /\ shown.rows[i].barWidth <= 100 * 1000
           /\ shown.card.kind = "detail" =>
                \A k \in DOMAIN shown.card.radarData :
                  /\ shown.card.radarData[k].value >= 0
                  /\ shown.card.radarData[k].value <= FullMark * 1000

\* the United States are shown first under the market-focused ranking: the
\* bar is 91.8 percent wide and the GDP point of the radar is at 69.287
C19_Witness ==
  /\ showResults
  /\ selectedScenario = "market-focused"
  /\ selectedCountry = "USA"
  /\ view.rows[1].iso = "USA"
  /\ view.rows[1].barWidth = 90500
  /\ view.card.radarData[2].value = 69287
  /\ view.card.radarData[4].value = 91200

====
